---- MODULE Spec2Model ----
(***************************************************************************)
(* Model of the two Streamlit scripts of the weight-tracker repository:    *)
(*   health_tracker.py  - weight / body-fat / blood-pressure log kept in   *)
(*                        a SQLite database (tables weights and            *)
(*                        blood_pressure);                                 *)
(*   weight_tracker.py  - the earlier weight log kept in                   *)
(*                        st.session_state.weight_log.                     *)
(* One behaviour runs one of the two scripts (variable app).  Every        *)
(* action is one complete run of the script, top to bottom.                *)
(*                                                                         *)
(* Numbers: weights and body-fat percentages are the values typed into    *)
(* the number inputs; a missing value (SQL NULL, pandas NaN / None) is     *)
(* the empty tuple and a present value v is the 1-tuple <<v>>.  Dates are  *)
(* <<year, month, day>>; text is a tuple of ASCII codes.                   *)
(***************************************************************************)
EXTENDS Integers, Sequences, FiniteSets, TLC

\* ------------------------------------------------------------------ bounds
\* Rows the database holds at most (both tables together), and rows of the
\* session log of weight_tracker.py.
MaxRows == 2
MaxLog == 2

\* Rows of the logs the rolling mean is checked on.
TrendLen == 5

\* ------------------------------------------------------- values of inputs
Dates == {<<2024, 1, 9>>, <<2024, 1, 10>>}
WeightInputs == {0, 70, 73}
BodyFatInputs == {0, 9, 15}
SystolicInputs == {0, 120}
DiastolicInputs == {0, 80}
NotesInputs == {""}

\* Order in which rows with equal sort keys come out of a sort that names no
\* tie-breaker: "insertion" keeps them in insertion order, "reverse" does not.
TieOrders == {"insertion", "reverse"}

\* app         the script that is running
\* db          data/health_data.db
\* weight_log  st.session_state.weight_log (weight_tracker.py)
\* msg         what the last run answered the form with
\* tie_order   how the sorts of this installation order equal keys
\* fresh       the last run was the first run of a newly started process
\* run         the form as the last run read it: the section, the button and,
\*             when the button was pressed, the values of the inputs
\* before      db and weight_log as they were when the last run began
VARIABLES app, db, weight_log, msg, tie_order, fresh, run, before

vars == <<app, db, weight_log, msg, tie_order, fresh, run, before>>

\* ------------------------------------------------------------ evaluation
\* F applied to the value of x.  TLC passes the arguments of an operator
\* unevaluated and evaluates them again at every use; Eval evaluates x once.
Eval(F(_), x) == CHOOSE r \in {F(v) : v \in {x}} : TRUE

\* ------------------------------------------------------- optional values
NaN == <<>>

Some(v) == <<v>>

IsNaN(x) == x = NaN

\* x < k for a pandas scalar x: any comparison with NaN is False.
LtNum(x, k) == (~IsNaN(x)) /\ x[1] < k

\* x + k: NaN propagates.
AddNum(x, k) == IF IsNaN(x) THEN NaN ELSE Some(x[1] + k)

\* ------------------------------------------------------------ dates, text
RECURSIVE Digits(_, _)
\* n zero-padded to `width` decimal digits, as ASCII codes ("%04d", "%02d").
Digits(n, width) ==
    IF width = 0 THEN <<>>
    ELSE Digits(n \div 10, width - 1) \o <<48 + (n % 10)>>

RECURSIVE Decimal(_)
Decimal(n) == IF n < 10 THEN <<48 + n>> ELSE Decimal(n \div 10) \o <<48 + (n % 10)>>

\* Mutant of isoformat: "%d-%d-%d", month and day not zero-padded.
isoformat_unpadded(d) == Decimal(d[1]) \o <<45>> \o Decimal(d[2]) \o <<45>> \o Decimal(d[3])

\* datetime.date.isoformat(): "YYYY-MM-DD".
isoformat(d) == Digits(d[1], 4) \o <<45>> \o Digits(d[2], 2) \o <<45>> \o Digits(d[3], 2)

RECURSIVE Number(_, _, _)
\* The decimal number written in text[lo..hi].
Number(text, lo, hi) ==
    IF hi < lo THEN 0 ELSE Number(text, lo, hi - 1) * 10 + (text[hi] - 48)

Min(S) == CHOOSE m \in S : \A x \in S : m <= x

Max(S) == CHOOSE m \in S : \A x \in S : m >= x

\* pd.to_datetime of a date text: the numbers before, between and after its
\* two '-' signs.
ParseDate(text, hyphens) ==
    <<Number(text, 1, Min(hyphens) - 1),
      Number(text, Min(hyphens) + 1, Max(hyphens) - 1),
      Number(text, Max(hyphens) + 1, Len(text))>>

to_datetime(text) ==
    Eval(LAMBDA t : Eval(LAMBDA h : ParseDate(t, h), {i \in 1..Len(t) : t[i] = 45}),
         text)

\* Three-way lexicographic comparison of two tuples of integers: memcmp on text
\* (SQLite's BINARY collation), calendar order on <<year, month, day>>.
CmpAt(a, b, diff) ==
    IF diff # {} THEN (IF a[Min(diff)] < b[Min(diff)] THEN -1 ELSE 1)
    ELSE IF Len(a) < Len(b) THEN -1
    ELSE IF Len(a) > Len(b) THEN 1
    ELSE 0

Cmp(a, b) ==
    Eval(LAMBDA diff : CmpAt(a, b, diff),
         {i \in 1..(IF Len(a) < Len(b) THEN Len(a) ELSE Len(b)) : a[i] # b[i]})

\* ---------------------------------------------------------------- sorting
\* items[j] is placed before items[i]: its key is smaller (larger when
\* descending), or the keys are equal and the tie order puts it first.
PlacedBefore(items, j, i, ascending, tie) ==
    LET c == Cmp(items[j][1], items[i][1])
    IN \/ (IF ascending THEN c < 0 ELSE c > 0)
       \/ c = 0 /\ (IF tie = "insertion" THEN j < i ELSE j > i)

\* The items <<key, row>> sorted on their keys.
\* The number of items placed before each item.
Ranks(items, ascending, tie) ==
    [i \in 1..Len(items) |->
        Cardinality({j \in 1..Len(items) : PlacedBefore(items, j, i, ascending, tie)})]

\* The rows of the items <<key, row>> sorted on their keys.
SortKeyed(items, ascending, tie) ==
    Eval(LAMBDA its :
            Eval(LAMBDA rank :
                    [p \in 1..Len(its) |->
                        its[CHOOSE i \in 1..Len(its) : rank[i] = p - 1][2]],
                 Ranks(its, ascending, tie)),
         items)

\* ------------------------------------------------- health_tracker.py: store
\* The database file: a function from the names of the tables that exist to
\* their rows in rowid order.  A file with no table is the empty function.
NoTables == [t \in {} |-> <<>>]

\* CREATE TABLE IF NOT EXISTS name (...)
CreateTableIfNotExists(d, name) ==
    IF name \in DOMAIN d THEN d
    ELSE [t \in (DOMAIN d) \cup {name} |-> IF t = name THEN <<>> ELSE d[t]]

\* Mutant of init_db: the tables are dropped and created again.
init_db_recreate(d) == [t \in {"weights", "blood_pressure"} |-> <<>>]

init_db(d) ==
    CreateTableIfNotExists(CreateTableIfNotExists(d, "weights"), "blood_pressure")

\* INTEGER PRIMARY KEY AUTOINCREMENT: one more than the largest rowid so far.
AutoIncrement(rows) ==
    IF rows = <<>> THEN 1
    ELSE 1 + Max({rows[i].id : i \in 1..Len(rows)})

\* Mutant of insert_weight: INSERT OR REPLACE with the date as the key.
insert_weight_replace(d, entry_date, weight, body_fat, notes) ==
    [d EXCEPT !["weights"] =
        Append(SelectSeq(@, LAMBDA r : r.date # entry_date),
               [id |-> AutoIncrement(@), date |-> entry_date, weight |-> weight,
                body_fat |-> body_fat, notes |-> notes])]

insert_weight(d, entry_date, weight, body_fat, notes) ==
    [d EXCEPT !["weights"] =
        Append(@, [id |-> AutoIncrement(@), date |-> entry_date, weight |-> weight,
                   body_fat |-> body_fat, notes |-> notes])]

insert_bp(d, entry_date, systolic, diastolic, notes) ==
    [d EXCEPT !["blood_pressure"] =
        Append(@, [id |-> AutoIncrement(@), date |-> entry_date, systolic |-> systolic,
                   diastolic |-> diastolic, notes |-> notes])]

\* SELECT * FROM <table> ORDER BY date ASC: the rows sorted on the date text.
OrderByDateAsc(rows, tie) ==
    SortKeyed([i \in 1..Len(rows) |-> <<rows[i].date, rows[i]>>], TRUE, tie)

load_weights(d, tie) == OrderByDateAsc(d["weights"], tie)

load_bp(d, tie) == OrderByDateAsc(d["blood_pressure"], tie)

\* Mutant of BodyFatOrNone: the input is stored as entered.
BodyFatAsEntered(bodyfat) == Some(bodyfat)

\* bodyfat if bodyfat > 0 else None
BodyFatOrNone(bodyfat) == IF bodyfat > 0 THEN Some(bodyfat) ELSE NaN

\* Mutant of WeightValid: `weight >= 0`.
WeightNotNegative(weight) == weight >= 0

\* The test of the entry forms: `add_button and weight > 0`.
WeightValid(weight) == weight > 0

\* Mutant of BPValid: `systolic > 0 or diastolic > 0`.
BPEitherPositive(systolic, diastolic) == systolic > 0 \/ diastolic > 0

\* `add_bp_button and systolic > 0 and diastolic > 0`.
BPValid(systolic, diastolic) == systolic > 0 /\ diastolic > 0

\* ----------------------------------------------- health_tracker.py: views
\* data["date"] = pd.to_datetime(data["date"]) and the rename of the columns.
WeightRow(r) ==
    [id |-> r.id, Date |-> to_datetime(r.date), Weight |-> r.weight,
     BodyFat |-> r.body_fat, Notes |-> r.notes]

WeightFrame(rows) == Eval(LAMBDA rs : [i \in 1..Len(rs) |-> WeightRow(rs[i])], rows)

BPRow(r) ==
    [id |-> r.id, Date |-> to_datetime(r.date), Systolic |-> r.systolic,
     Diastolic |-> r.diastolic, Notes |-> r.notes]

BPFrame(rows) == Eval(LAMBDA rs : [i \in 1..Len(rs) |-> BPRow(rs[i])], rows)

\* df.sort_values("Date", ascending=...), pandas' default (quicksort) kind.
sort_values_Date(df, ascending, tie) ==
    Eval(LAMBDA f : SortKeyed([i \in 1..Len(f) |-> <<f[i].Date, f[i]>>], ascending, tie),
         df)

\* ------------------------------------------- weight_tracker.py: the log
\* pd.DataFrame(columns=["Date", "Weight", "Body Fat %", "Notes"])
EmptyLog == <<>>

\* pd.concat([weight_log, new_row], ignore_index=True); id is the index label.
concat_row(log, entry_date, weight, bodyfat, notes) ==
    Append(log, [id |-> Len(log), Date |-> entry_date, Weight |-> weight,
                 BodyFat |-> bodyfat, Notes |-> notes])

\* ------------------------------------------------------------- the frames
\* The frame `data` of a run: load_weights() with the date parsed and the
\* columns renamed, or the session log sorted by Date.
weight_data(d, log) ==
    IF app = "weight_tracker" THEN sort_values_Date(log, TRUE, tie_order)
    ELSE WeightFrame(load_weights(d, tie_order))

bp_data(d) == BPFrame(load_bp(d, tie_order))

data == weight_data(db, weight_log)

data_bp == bp_data(db)

\* -------------------------------------------------------------- the views
\* The displayed log: data[["Date","Weight","Body Fat %","Notes"]]
\*                      .sort_values("Date", ascending=False)
DisplayedWeight(r) == <<r.Date, r.Weight, r.BodyFat, r.Notes>>

weight_table ==
    Eval(LAMBDA t : [i \in 1..Len(t) |-> DisplayedWeight(t[i])],
         sort_values_Date(data, FALSE, tie_order))

DisplayedBP(r) == <<r.Date, r.Systolic, r.Diastolic, r.Notes>>

bp_table ==
    Eval(LAMBDA t : [i \in 1..Len(t) |-> DisplayedBP(t[i])],
         sort_values_Date(data_bp, FALSE, tie_order))

\* ------------------------------------------------------------- statistics
\* Series.min() / Series.max(): NaN values are skipped; NaN when none is left.
NotNaN(s) == {s[i][1] : i \in {j \in 1..Len(s) : ~IsNaN(s[j])}}

SeriesMin(s) ==
    Eval(LAMBDA vals : IF vals = {} THEN NaN ELSE Some(Min(vals)), NotNaN(s))

SeriesMax(s) ==
    Eval(LAMBDA vals : IF vals = {} THEN NaN ELSE Some(Max(vals)), NotNaN(s))

\* data["Weight"] and data["Body Fat %"]
WeightCol(df) == Eval(LAMBDA f : [i \in 1..Len(f) |-> Some(f[i].Weight)], df)

BodyFatCol(df) == Eval(LAMBDA f : [i \in 1..Len(f) |-> f[i].BodyFat], df)

targetWeight == 100

minTargetBodyFat == 11

maxTargetBodyFat == 20

\* x.min() if x.min() < target else target
MinOrTarget(s, target) ==
    Eval(LAMBDA m : IF LtNum(m, target) THEN m ELSE Some(target), SeriesMin(s))

minWeight == MinOrTarget(WeightCol(data), targetWeight)

maxWeight == SeriesMax(WeightCol(data))

minBodyFat == MinOrTarget(BodyFatCol(data), minTargetBodyFat)

maxBodyFat == SeriesMax(BodyFatCol(data))

\* yaxis_range=[(minWeight-10),(maxWeight+10)]
weight_yaxis_range == <<AddNum(minWeight, -10), AddNum(maxWeight, 10)>>

\* yaxis_range=[(minBodyFat-5),(maxBodyFat+5)]
bodyfat_yaxis_range == <<AddNum(minBodyFat, -5), AddNum(maxBodyFat, 5)>>

\* data.iloc[-1]['Weight'] and data.iloc[0]['Weight']
LatestWeight == Eval(LAMBDA f : f[Len(f)].Weight, data)

FirstWeight == Eval(LAMBDA f : f[1].Weight, data)

\* "Change": latest - first when len(data) > 1, else "N/A".
Change ==
    Eval(LAMBDA f : IF Len(f) > 1 THEN Some(f[Len(f)].Weight - f[1].Weight) ELSE NaN,
         data)

RECURSIVE SumTo(_, _)
SumTo(s, n) == IF n = 0 THEN 0 ELSE SumTo(s, n - 1) + s[n]

Sum(s) == SumTo(s, Len(s))

\* Mutant of rolling_mean: min_periods=1.
rolling_mean_min_periods_1(values, window) ==
    Eval(LAMBDA vs :
            [i \in 1..Len(vs) |->
                Eval(LAMBDA obs : Some(<<Sum(obs), Len(obs)>>),
                     SubSeq(vs, IF i - window + 1 > 1 THEN i - window + 1 ELSE 1, i))],
         values)

\* Series.rolling(window).mean(): min_periods defaults to the window; position
\* i holds the mean <<sum, count>> of the observations in (i - window, i] when
\* there are at least min_periods of them, and NaN otherwise.
rolling_mean(values, window) ==
    Eval(LAMBDA vs :
            [i \in 1..Len(vs) |->
                Eval(LAMBDA obs : IF Len(obs) >= window
                                  THEN Some(<<Sum(obs), Len(obs)>>) ELSE NaN,
                     SubSeq(vs, IF i - window + 1 > 1 THEN i - window + 1 ELSE 1, i))],
         values)

\* data["Trend"] = data["Weight"].rolling(window=3).mean()
Trend == rolling_mean(Eval(LAMBDA f : [i \in 1..Len(f) |-> f[i].Weight], data), 3)

\* ------------------------------------------------------------- the export
\* df.to_csv(index=False): one line per row of the frame, in the frame's order,
\* with every column of the frame (health_tracker.py: id and the four renamed
\* columns); a date is written as its ISO text and NaN as the empty field.
to_csv(df) ==
    Eval(LAMBDA f : [i \in 1..Len(f) |-> [f[i] EXCEPT !.Date = isoformat(@)]], df)

\* weight_tracker.py exports the frame after data["Trend"] was added to it.
WithTrend(df, trend) ==
    Eval(LAMBDA p :
            [i \in 1..Len(p[1]) |->
                [Date |-> p[1][i].Date, Weight |-> p[1][i].Weight,
                 BodyFat |-> p[1][i].BodyFat, Notes |-> p[1][i].Notes,
                 Trend |-> p[2][i]]],
         <<df, trend>>)

\* Mutant of csv: the export is taken from the frame sorted as the table is.
csv_descending ==
    to_csv(sort_values_Date(IF app = "weight_tracker" THEN WithTrend(data, Trend) ELSE data,
                            FALSE, tie_order))

csv == IF app = "weight_tracker" THEN to_csv(WithTrend(data, Trend)) ELSE to_csv(data)

csv_bp == to_csv(data_bp)

\* A line of the export read back as the displayed columns.
ParseWeightLine(line) ==
    Eval(LAMBDA l : <<to_datetime(l.Date), l.Weight, l.BodyFat, l.Notes>>, line)

ParseBPLine(line) ==
    Eval(LAMBDA l : <<to_datetime(l.Date), l.Systolic, l.Diastolic, l.Notes>>, line)

\* ------------------------------------------------------------ the messages
NoMessage == ""

WeightSuccess == "Added kg"

WeightWarning == "Please enter a valid weight before saving."

BPSuccess == "Added BP reading"

BPWarning == "Please enter valid blood pressure values before saving."

StoredRows == Len(db["weights"]) + Len(db["blood_pressure"])

\* ---------------------------------------------------------------- actions
NoButton(section) == [section |-> section, button |-> FALSE]

WeightForm(section, entry_date, weight, bodyfat, notes) ==
    [section |-> section, button |-> TRUE, entry_date |-> entry_date,
     weight |-> weight, bodyfat |-> bodyfat, notes |-> notes]

BPForm(entry_date, systolic, diastolic, notes) ==
    [section |-> "bp", button |-> TRUE, entry_date |-> entry_date,
     systolic |-> systolic, diastolic |-> diastolic, notes |-> notes]

Stored == [db |-> db, weight_log |-> weight_log]

\* One run of health_tracker.py with the weight section selected.
weight_section(entry_date, weight, bodyfat, notes, add_button) ==
    /\ app = "health_tracker"
    /\ IF add_button /\ WeightValid(weight)
       THEN /\ StoredRows < MaxRows
            /\ db' = insert_weight(db, isoformat(entry_date), weight,
                                   BodyFatOrNone(bodyfat), notes)
            /\ msg' = WeightSuccess
       ELSE IF add_button
       THEN db' = db /\ msg' = WeightWarning
       ELSE db' = db /\ msg' = NoMessage
    /\ run' = IF add_button THEN WeightForm("weight", entry_date, weight, bodyfat, notes)
              ELSE NoButton("weight")
    /\ before' = Stored
    /\ fresh' = FALSE
    /\ UNCHANGED <<app, weight_log, tie_order>>

\* One run of health_tracker.py with the blood pressure section selected.
bp_section(entry_date, systolic, diastolic, notes, add_bp_button) ==
    /\ app = "health_tracker"
    /\ IF add_bp_button /\ BPValid(systolic, diastolic)
       THEN /\ StoredRows < MaxRows
            /\ db' = insert_bp(db, isoformat(entry_date), systolic, diastolic, notes)
            /\ msg' = BPSuccess
       ELSE IF add_bp_button
       THEN db' = db /\ msg' = BPWarning
       ELSE db' = db /\ msg' = NoMessage
    /\ run' = IF add_bp_button THEN BPForm(entry_date, systolic, diastolic, notes)
              ELSE NoButton("bp")
    /\ before' = Stored
    /\ fresh' = FALSE
    /\ UNCHANGED <<app, weight_log, tie_order>>

\* One run of weight_tracker.py.
weight_tracker_run(entry_date, weight, bodyfat, notes, add_button) ==
    /\ app = "weight_tracker"
    /\ IF add_button /\ WeightValid(weight)
       THEN /\ Len(weight_log) < MaxLog
            /\ weight_log' = concat_row(weight_log, entry_date, weight,
                                        BodyFatOrNone(bodyfat), notes)
            /\ msg' = WeightSuccess
       ELSE IF add_button
       THEN weight_log' = weight_log /\ msg' = WeightWarning
       ELSE weight_log' = weight_log /\ msg' = NoMessage
    /\ run' = IF add_button THEN WeightForm("weight", entry_date, weight, bodyfat, notes)
              ELSE NoButton("weight")
    /\ before' = Stored
    /\ fresh' = FALSE
    /\ UNCHANGED <<app, db, tie_order>>

\* The process is stopped and started again, and the page is shown: the first
\* run is of the weight section, with no button pressed.  health_tracker.py
\* runs init_db() on the file it finds; the session state of weight_tracker.py
\* is new, so the log is created again.
restart ==
    /\ IF app = "health_tracker"
       THEN db' = init_db(db) /\ weight_log' = weight_log
       ELSE weight_log' = EmptyLog /\ db' = db
    /\ msg' = NoMessage
    /\ run' = NoButton("weight")
    /\ before' = Stored
    /\ fresh' = TRUE
    /\ UNCHANGED <<app, tie_order>>

\* The button of the weight section is pressed.
AddWeightEntry ==
    \E entry_date \in Dates, weight \in WeightInputs, bodyfat \in BodyFatInputs,
       notes \in NotesInputs :
        weight_section(entry_date, weight, bodyfat, notes, TRUE)

\* The button of the blood pressure section is pressed.
AddBPReading ==
    \E entry_date \in Dates, systolic \in SystolicInputs, diastolic \in DiastolicInputs,
       notes \in NotesInputs :
        bp_section(entry_date, systolic, diastolic, notes, TRUE)

\* The button of weight_tracker.py is pressed.
AddEntry ==
    \E entry_date \in Dates, weight \in WeightInputs, bodyfat \in BodyFatInputs,
       notes \in NotesInputs :
        weight_tracker_run(entry_date, weight, bodyfat, notes, TRUE)

\* A run without a button pressed (the section is chosen, an input is
\* edited): the inputs hold their defaults or what was typed, and are not used.
ViewWeightSection ==
    \E entry_date \in Dates : weight_section(entry_date, 0, 0, "", FALSE)

ViewBPSection ==
    \E entry_date \in Dates : bp_section(entry_date, 0, 0, "", FALSE)

ViewWeightTracker ==
    \E entry_date \in Dates : weight_tracker_run(entry_date, 0, 0, "", FALSE)

Init ==
    /\ app \in {"health_tracker", "weight_tracker"}
    /\ db = IF app = "health_tracker" THEN init_db(NoTables) ELSE NoTables
    /\ weight_log = EmptyLog
    /\ msg = NoMessage
    /\ tie_order \in TieOrders
    /\ fresh = TRUE
    /\ run = NoButton("weight")
    /\ before = Stored

Next ==
    \/ AddWeightEntry
    \/ AddBPReading
    \/ AddEntry
    \/ ViewWeightSection
    \/ ViewBPSection
    \/ ViewWeightTracker
    \/ restart

Spec == Init /\ [][Next]_vars

\* ------------------------------------------- the rolling mean on longer logs
RECURSIVE LogsOfLength(_)
\* The logs weight_tracker.py builds from n accepted entries without body-fat.
LogsOfLength(n) ==
    IF n = 0 THEN {EmptyLog}
    ELSE {concat_row(log, entry_date, weight, NaN, "") :
            log \in LogsOfLength(n - 1), entry_date \in Dates,
            weight \in {w \in WeightInputs : WeightValid(w)}}

\* weight_tracker.py after a run without a button on any such log.
InitTrend ==
    /\ app = "weight_tracker"
    /\ db = NoTables
    /\ weight_log \in UNION {LogsOfLength(n) : n \in 0..TrendLen}
    /\ msg = NoMessage
    /\ tie_order \in TieOrders
    /\ fresh = FALSE
    /\ run = NoButton("weight")
    /\ before = Stored

NextTrend == AddEntry \/ ViewWeightTracker \/ restart

SpecTrend == InitTrend /\ [][NextTrend]_vars

\* ----------------------------------------------------------------- claims
Range(f) == {f[i] : i \in 1..Len(f)}

SortedByDate(df) == \A i \in 1..Len(df) - 1 : Cmp(df[i].Date, df[i + 1].Date) <= 0

\* The frames as the code would have read them when the last run began.
data_before == weight_data(before.db, before.weight_log)

data_bp_before == bp_data(before.db)

\* The last run was a weight submission / a blood pressure submission.
WeightSubmitted == run.section = "weight" /\ run.button

BPSubmitted == run.section = "bp" /\ run.button

\* C1: after a weight submission with weight w > 0 and date d the weight list
\* read by the run holds exactly one entry more than before, that entry carries
\* (d, w), all earlier entries are still listed, and the list is sorted by date
\* ascending, whatever was submitted before and in whatever order of dates.
C1_AcceptedWeightIsListed ==
    (WeightSubmitted /\ run.weight > 0) =>
        \A now \in {data}, old \in {data_before} :
            /\ Len(now) = Len(old) + 1
            /\ Range(old) \subseteq Range(now)
            /\ Cardinality(Range(now) \ Range(old)) = 1
            /\ \A r \in Range(now) \ Range(old) :
                    r.Date = run.entry_date /\ r.Weight = run.weight
            /\ SortedByDate(now)

\* C1 witness: the entry submitted last has an earlier date than one stored
\* before it and is listed ahead of it.
C1_Witness ==
    /\ app = "health_tracker"
    /\ WeightSubmitted /\ run.weight > 0
    /\ \E now \in {data} :
            /\ Len(now) = 2
            /\ now[1].id > now[2].id
            /\ Cmp(now[1].Date, now[2].Date) < 0

\* C2: a weight submission with weight <= 0 changes nothing that is stored and
\* is answered with the validation warning, not with the success message.
C2_RejectedWeightStoresNothing ==
    (WeightSubmitted /\ run.weight <= 0) =>
        /\ db = before.db
        /\ weight_log = before.weight_log
        /\ data = data_before
        /\ msg = WeightWarning

\* C2 witness: a weight of 0 was submitted while weight entries are stored.
C2_Witness == WeightSubmitted /\ run.weight <= 0 /\ Len(data) >= 1

\* C3: a blood pressure submission is stored iff systolic > 0 and
\* diastolic > 0; otherwise the stored readings are unchanged and the warning
\* is given, also when only one of the two values is <= 0.
C3_BloodPressureStoredIffBothPositive ==
    BPSubmitted =>
        \A now \in {data_bp}, old \in {data_bp_before} :
            IF run.systolic > 0 /\ run.diastolic > 0
            THEN /\ Len(now) = Len(old) + 1
                 /\ Range(old) \subseteq Range(now)
                 /\ \A r \in Range(now) \ Range(old) :
                        /\ r.Date = run.entry_date
                        /\ r.Systolic = run.systolic
                        /\ r.Diastolic = run.diastolic
                 /\ msg = BPSuccess
            ELSE /\ db = before.db
                 /\ now = old
                 /\ msg = BPWarning

\* C3 witness: a reading with only one value > 0 was submitted while a
\* reading is stored.
C3_Witness ==
    /\ BPSubmitted
    /\ (run.systolic > 0) # (run.diastolic > 0)
    /\ Len(data_bp) >= 1

\* C4: no stored weight entry ever has body-fat 0: an accepted submission with
\* body-fat input 0 is stored with no body-fat value, one with an input > 0
\* with exactly that value.
C4_ZeroBodyFatStoredAsNull ==
    \A now \in {data} :
        /\ \A r \in Range(now) : r.BodyFat # Some(0)
        /\ (WeightSubmitted /\ run.weight > 0) =>
                \A r \in Range(now) \ Range(data_before) :
                    r.BodyFat = IF run.bodyfat > 0 THEN Some(run.bodyfat) ELSE NaN

\* C4 witness: a weight was accepted with body-fat input 0 while an entry
\* with a body-fat value is stored.
C4_Witness ==
    /\ WeightSubmitted /\ run.weight > 0 /\ run.bodyfat = 0
    /\ \E r \in Range(data) : r.BodyFat # NaN

C6_AppendKeepsStoredRecords ==
    run.button =>
        /\ Range(before.weight_log) \subseteq Range(weight_log)
        /\ app = "health_tracker" =>
            /\ Range(before.db["weights"]) \subseteq Range(db["weights"])
            /\ Range(before.db["blood_pressure"]) \subseteq Range(db["blood_pressure"])
            /\ run.section = "weight" =>
                    db["blood_pressure"] = before.db["blood_pressure"]
            /\ run.section = "bp" => db["weights"] = before.db["weights"]

\* C6 witness: a weight was accepted for a date that already has an entry.
C6_Witness ==
    /\ app = "health_tracker"
    /\ WeightSubmitted /\ run.weight > 0
    /\ \E r \in Range(before.db["weights"]) : r.date = isoformat(run.entry_date)

\* The lines of an export read back as rows of the displayed columns.
WeightLines == Eval(LAMBDA c : [i \in 1..Len(c) |-> ParseWeightLine(c[i])], csv)

BPLines == Eval(LAMBDA c : [i \in 1..Len(c) |-> ParseBPLine(c[i])], csv_bp)

Ascending(lines) == \A i \in 1..Len(lines) - 1 : Cmp(lines[i][1], lines[i + 1][1]) <= 0

\* C7 as stated: each export has its rows in the order of the displayed log
\* table, descending by date.
C7_CsvInTableOrder ==
    /\ data # <<>> => WeightLines = weight_table
    /\ (app = "health_tracker" /\ data_bp # <<>>) => BPLines = bp_table

\* C7 amended: each export has one row per stored record, in the order of the
\* loaded frame, which is ascending by date.
C7_CsvInListingOrder ==
    /\ \A now \in {data}, lines \in {WeightLines} :
        now # <<>> =>
            /\ Len(lines) = (IF app = "weight_tracker" THEN Len(weight_log)
                             ELSE Len(db["weights"]))
            /\ lines = [i \in 1..Len(now) |-> DisplayedWeight(now[i])]
            /\ Ascending(lines)
    /\ app = "health_tracker" =>
        \A now \in {data_bp}, lines \in {BPLines} :
            now # <<>> =>
                /\ Len(lines) = Len(db["blood_pressure"])
                /\ lines = [i \in 1..Len(now) |-> DisplayedBP(now[i])]
                /\ Ascending(lines)

\* C7 witness: two weights with different dates are exported.
C7_Witness == \E c \in {csv} : Len(c) = 2 /\ c[1].Date # c[2].Date

\* C8: the trend has the length of the date-ordered weights; its first two
\* positions hold no value and every later position holds the mean of the
\* weight at that position and the two before it.
C8_TrendIsThreePointMean ==
    app = "weight_tracker" =>
        \A now \in {data}, trend \in {Trend} :
            /\ Len(trend) = Len(now)
            /\ \A i \in 1..Len(now) :
                    IF i < 3 THEN trend[i] = NaN
                    ELSE /\ trend[i] # NaN
                         /\ trend[i][1][2] > 0
                         /\ trend[i][1][1] * 3 =
                                (now[i - 2].Weight + now[i - 1].Weight + now[i].Weight)
                                    * trend[i][1][2]

\* C8 witness: a trend with two values that differ.
C8_Witness ==
    /\ app = "weight_tracker"
    /\ \E trend \in {Trend} :
            /\ Len(trend) >= 4
            /\ trend[3] # NaN /\ trend[4] # NaN
            /\ trend[3][1][1] # trend[4][1][1]

\* Rows of a frame that share a date are in the order of their ids.
TiesByIdIn(df) ==
    \A i, j \in 1..Len(df) : (i < j /\ df[i].Date = df[j].Date) => df[i].id < df[j].id

KnownBodyFat == NotNaN(BodyFatCol(data))

\* C10 as stated: whenever the body-fat axis range is computed both bounds
\* are numbers, and they are min(m, 11) - 5 and M + 5 for the minimum m and
\* maximum M of the body-fat values that are not null.
C10_BodyFatRangeDefined ==
    (app = "health_tracker" /\ data # <<>>) =>
        \A range \in {bodyfat_yaxis_range}, known \in {KnownBodyFat} :
            /\ range[1] # NaN
            /\ range[2] # NaN
            /\ known # {} =>
                    range = <<Some((IF Min(known) < minTargetBodyFat
                                    THEN Min(known) ELSE minTargetBodyFat) - 5),
                              Some(Max(known) + 5)>>

====
